---- MODULE Spec2Model ----
(***************************************************************************)
(* A state-machine model of AudioVisualizer (src/audio_visualizer.py):     *)
(* the analysis pipeline (analyze_audio, detect_beat,                      *)
(* get_frequency_bands), the particle system of mode 5 and the main loop   *)
(* run() with its event handling.                                          *)
(*                                                                         *)
(* Numbers.  The program computes in floating point; the model computes    *)
(* the same quantities exactly, as integers over a fixed denominator:      *)
(*   - a compressed spectrum value is a whole number of units;             *)
(*   - a smoothed spectrum value (np.mean over 1..3 spectra) and every     *)
(*     bass energy is a whole number of 1/Den units, Den = lcm(1,2,3);     *)
(*   - the hue is a whole number of 1/HueDen, 0.002 being HueStep/HueDen.  *)
(* The FFT of a frame is not computed: a frame is named by its kind and    *)
(* Compress gives the compressed spectrum lines 76-86 produce for it.      *)
(***************************************************************************)
EXTENDS Integers, Sequences, FiniteSets, TLC

\* ------------------------------------------------------------ constants
RATE == 44100
BassHz == 200
HistLen == 20
SmoothLen == 3
CooldownTicks == 10
ParticleLife == 60
ParticleBands == 32
SpawnLevel == 5
HueStep == 2
HueDen == 1000
\* beat_threshold = 1.3 = ThresholdNum / ThresholdDen
\* self.CHUNK, the samples of a frame as the waveform of mode 3 gets it
FrameSamples == 2048
ThresholdNum == 13
ThresholdDen == 10

\* ------------------------------------------------------------ bounds
\* samples in a frame: 2048 in the program (line 19), scaled down here, and
\* still long enough for a bass bin and for ParticleBands non-empty bands
CHUNK == 256
\* non-paused ticks of a session of the main specification
MaxTicks == 3
\* events handled in one tick
MaxEvents == 2
\* the long sessions: the events handled in one tick, the non-paused ticks
\* of the silent session, and of the session that falls silent, with the
\* ticks before it does
LongEvents == 1
SilentTicks == 502
LifeTicks == 63
NoisyTicks == 2
\* detect_beat calls made on a detector driven directly
MaxCalls == 33
\* get_frequency_bands called on its own: the longest of the short series,
\* and the largest band count
MaxSeries == 4
MaxBands == 5

\* denominator of smoothed values: every mean over 1..SmoothLen spectra is
\* a whole number of 1/Den
Den == SmoothLen * (SmoothLen - 1)

HalfChunk == CHUNK \div 2

\* int(200 * self.CHUNK / self.RATE)
bass_range == (BassHz * CHUNK) \div RATE

Min(a, b) == IF a < b THEN a ELSE b

\* sum of s[a..b] (1-based, inclusive), 0 when the range is empty
RECURSIVE SumRange(_, _, _)
SumRange(s, a, b) == IF a > b THEN 0 ELSE s[b] + SumRange(s, a, b - 1)

SumSeq(s) == SumRange(s, 1, Len(s))

\* deque(maxlen=n).append(x)
DequeAppend(d, x, n) ==
    IF Len(d) < n THEN Append(d, x) ELSE Append(Tail(d), x)

\* ------------------------------------------------------------ frames
\* The kinds of audio frame the microphone delivers.
Frames == {"silent", "bass", "loud"}

\* The frame substituted when the read fails: np.zeros(CHUNK)
ZeroFrame == "silent"

\* Lines 76-86 applied to a frame: its compressed spectrum, HalfChunk
\* non-negative values.  An all-zero frame gives log10(0 + 1) * 20 = 0 in
\* every bin; "loud" is a flat spectrum (an impulse), "bass" has all its
\* energy in the bass bins.
Compress(frame) ==
    [i \in 1..HalfChunk |->
        CASE frame = "silent" -> 0
          [] frame = "loud"   -> 30
          [] frame = "bass"   -> IF i <= bass_range THEN 60 ELSE 0]

\* MeanSpectra dividing by the buffer's capacity: the empty slots count as zeros
MeanSpectraPadded(fs) ==
    [i \in 1..HalfChunk |->
        (Den \div SmoothLen) * SumSeq([k \in 1..Len(fs) |-> fs[k][i]])]

\* np.mean(self.freq_smooth, axis=0), in 1/Den units
MeanSpectra(fs) ==
    [i \in 1..HalfChunk |->
        (Den \div Len(fs)) * SumSeq([k \in 1..Len(fs) |-> fs[k][i]])]

\* analyze_audio: the smoothing buffer after the call and the value returned
AnalyzeAudio(fs, frame) ==
    LET fs2 == DequeAppend(fs, Compress(frame), SmoothLen)
    IN  [freq_smooth |-> fs2, smoothed |-> MeanSpectra(fs2)]

\* np.sum(fft_data[:bass_range])
BassEnergy(fft_data) == SumRange(fft_data, 1, Min(bass_range, Len(fft_data)))

\* ExceedsThreshold with >= for >
ExceedsOrEquals(bass_energy, hist) ==
    bass_energy * Len(hist) * ThresholdDen >= SumSeq(hist) * ThresholdNum

\* bass_energy > avg_energy * self.beat_threshold, with
\* avg_energy = sum(hist) / len(hist), cross-multiplied
ExceedsThreshold(bass_energy, hist) ==
    bass_energy * Len(hist) * ThresholdDen > SumSeq(hist) * ThresholdNum

\* DetectBeat with the cooldown test >= 0 for > 0
DetectBeatAlwaysCooling(hist, cooldown, fft_data) ==
    [beat_history |-> DequeAppend(hist, BassEnergy(fft_data), HistLen),
     beat_cooldown |-> cooldown - 1, ret |-> FALSE]

\* DetectBeat with the cooldown one call short
DetectBeatShortCooldown(hist, cooldown, fft_data) ==
    LET bass_energy == BassEnergy(fft_data)
        h2 == DequeAppend(hist, bass_energy, HistLen)
    IN  IF cooldown > 0
        THEN [beat_history |-> h2, beat_cooldown |-> cooldown - 1, ret |-> FALSE]
        ELSE IF ExceedsThreshold(bass_energy, h2)
             THEN [beat_history |-> h2, beat_cooldown |-> CooldownTicks - 1, ret |-> TRUE]
             ELSE [beat_history |-> h2, beat_cooldown |-> cooldown, ret |-> FALSE]

\* a detector whose cooldown counts down but suppresses nothing
DetectBeatNoSuppress(hist, cooldown, fft_data) ==
    LET bass_energy == BassEnergy(fft_data)
        h2 == DequeAppend(hist, bass_energy, HistLen)
    IN  IF ExceedsThreshold(bass_energy, h2)
        THEN [beat_history |-> h2, beat_cooldown |-> CooldownTicks, ret |-> TRUE]
        ELSE [beat_history |-> h2,
              beat_cooldown |-> IF cooldown > 0 THEN cooldown - 1 ELSE 0,
              ret |-> FALSE]

\* detect_beat: history and cooldown after the call, and the value returned
DetectBeat(hist, cooldown, fft_data) ==
    LET bass_energy == BassEnergy(fft_data)
        h2 == DequeAppend(hist, bass_energy, HistLen)
    IN  IF cooldown > 0
        THEN [beat_history |-> h2, beat_cooldown |-> cooldown - 1, ret |-> FALSE]
        ELSE IF ExceedsThreshold(bass_energy, h2)
             THEN [beat_history |-> h2, beat_cooldown |-> CooldownTicks, ret |-> TRUE]
             ELSE [beat_history |-> h2, beat_cooldown |-> cooldown, ret |-> FALSE]

\* The calls made since the last one that returned true, before the call
\* that follows the call ld; CooldownTicks stands for that many or more,
\* and for a detector that has not returned true yet
NextGap(ld) == IF ld.ret THEN 0 ELSE Min(ld.gap + 1, CooldownTicks)

\* a slicing that gives what the band count leaves over to the last band
BandSliceSpread(n, num_bands, i) ==
    LET band_size == n \div num_bands
    IN  [first |-> (i - 1) * band_size + 1,
         last |-> IF i = num_bands THEN n ELSE i * band_size]

\* Lines 117, 121-122: the positions (1-based) of the slice
\* fft_data[start:end] of band i (1-based) of a series of n elements
BandSlice(n, num_bands, i) ==
    LET band_size == n \div num_bands
    IN  [first |-> (i - 1) * band_size + 1, last |-> i * band_size]

\* get_frequency_bands: band i (1-based) is the mean num/den of its slice;
\* den = 0 is the mean of an empty slice (nan)
GetFrequencyBands(fft_data, num_bands) ==
    [i \in 1..num_bands |->
        LET sl == BandSlice(Len(fft_data), num_bands, i)
        IN  [num |-> SumRange(fft_data, sl.first, sl.last),
             den |-> sl.last - sl.first + 1]]

\* magnitude >= level
BandAtLeast(band, level) ==
    band.den > 0 /\ band.num >= level * Den * band.den

\* magnitude > level, for a band mean in 1/Den units (nan > level is false)
BandAbove(band, level) ==
    band.den > 0 /\ band.num > level * Den * band.den

\* ------------------------------------------------------------ particles
\* hue tag of a particle of band i (0-based): (self.hue + i / len(bands)) % 1.0,
\* in 1/(ParticleBands * HueDen)
ParticleHue(h, i) == (h * ParticleBands + i * HueDen) % (ParticleBands * HueDen)

\* Lines 240-253: the particles appended in one draw of mode 5, in band
\* order.  A particle keeps its band index i (which fixes its angle), the
\* band magnitude (which fixes its speed), its life and its hue tag; its
\* position and velocity are functions of these and of the number of
\* updates, and decide nothing about its membership.  updates counts the
\* updates applied to it.
SpawnParticles(beat, fft_data, h) ==
    IF ~beat THEN <<>>
    ELSE LET bands == GetFrequencyBands(fft_data, ParticleBands)
             cand == [k \in 1..Len(bands) |->
                         [i |-> k - 1, mag |-> bands[k], life |-> ParticleLife,
                          hue |-> ParticleHue(h, k - 1), updates |-> 0]]
             Spawns(p) == BandAbove(p.mag, SpawnLevel)
         IN  SelectSeq(cand, Spawns)

\* an update that takes two off the life
AgedByTwo(p) == [p EXCEPT !.life = @ - 2, !.updates = @ + 1]

\* particle['life'] -= 1
Aged(p) == [p EXCEPT !.life = @ - 1, !.updates = @ + 1]

\* Dead with < for <=
DeadBelowZero(p) == p.life < 0

\* if particle['life'] <= 0: self.particles.remove(particle)
Dead(p) == p.life <= 0

\* Lines 256-264: every particle ages by one; the dead ones are removed
UpdateParticles(ps) ==
    LET aged == [k \in 1..Len(ps) |-> Aged(ps[k])]
        Alive(p) == ~Dead(p)
    IN  SelectSeq(aged, Alive)

\* the update counts of the particles one update removes
Removed(ps) == {Aged(ps[k]).updates : k \in {j \in 1..Len(ps) : Dead(Aged(ps[j]))}}

\* ------------------------------------------------------------ state
VARIABLES
    mode, paused, hue,                  \* visualization state
    beat_history, beat_detected, beat_cooldown,
    freq_smooth, particles,
    running, audio_data, fft_data,      \* locals of run()
    pc,                                 \* position in run()
    cleanups,                           \* the times cleanup() has run
    handled,                            \* events handled in this tick
    lastEvent,                          \* the last event handled in this tick
    calls,                              \* detect_beat calls so far
    tick,                               \* what this tick has done so far
    t0,                                 \* the analysis state at the start of this tick
    lastDetect,                         \* the last detect_beat call
    pauseLog,                           \* the particle set when pause began
    expired,                            \* update counts of particles removed by an update
    frameLog,                           \* the last SmoothLen + 1 frames analyzed
    script,                             \* what feeds the detector
    probe                               \* a function called on its own: its input and its result

vars == <<mode, paused, hue, beat_history, beat_detected, beat_cooldown,
          freq_smooth, particles, running, audio_data, fft_data, pc, cleanups,
          handled, lastEvent, calls, tick, t0, lastDetect, pauseLog, expired,
          frameLog, script, probe>>

analysis == <<freq_smooth, beat_history, beat_cooldown, beat_detected, hue>>

NoTick == [pulls |-> 0, analyzes |-> 0, detects |-> 0, frame |-> "none",
           analyzeArg |-> "none", detectArg |-> <<>>,
           readsBeat |-> FALSE, drawBeat |-> FALSE, draws |-> 0, quit |-> FALSE]

NoEvent == [kind |-> "none", had |-> 0, same |-> FALSE]

\* the microphone feeds the pipeline of run()
Mic == [kind |-> "mic", e |-> 0]

\* no function is being called on its own
NoProbe == [fn |-> "none", series |-> <<>>, n |-> 0, called |-> FALSE, out |-> <<>>]

NoPause == [at |-> <<>>, selected |-> FALSE, ticked |-> FALSE]

\* __init__, lines 45-60, and the entry of run() into its loop
Construct ==
    /\ mode = 1
    /\ paused = FALSE
    /\ hue = 0
    /\ beat_history = <<>>
    /\ beat_detected = FALSE
    /\ beat_cooldown = 0
    /\ freq_smooth = <<>>
    /\ particles = <<>>
    /\ running = TRUE
    /\ audio_data = "none"
    /\ fft_data = <<>>
    /\ pc = "events"
    /\ cleanups = 0
    /\ handled = 0
    /\ lastEvent = NoEvent
    /\ calls = 0
    /\ tick = NoTick
    /\ t0 = <<<<>>, <<>>, 0, FALSE, 0>>
    /\ lastDetect = [called |-> FALSE, cd0 |-> 0, energy |-> 0, ret |-> FALSE,
                     gap |-> CooldownTicks]
    /\ pauseLog = NoPause
    /\ expired = {}
    /\ frameLog = <<>>

Init == Construct /\ script = Mic /\ probe = NoProbe

\* ------------------------------------------------------------ events
\* One event of the list pygame.event.get() returned, lines 281-291.

\* a quit event that leaves the loop at once, as a break would
QuitEventBreaks(maxEvents) ==
    /\ pc = "events" /\ handled < maxEvents
    /\ running' = FALSE
    /\ handled' = handled + 1
    /\ lastEvent' = [NoEvent EXCEPT !.kind = "quit"]
    /\ tick' = [tick EXCEPT !.quit = TRUE]
    /\ pc' = "cleanup"
    /\ UNCHANGED <<mode, paused, hue, beat_history, beat_detected, beat_cooldown,
                   freq_smooth, particles, audio_data, fft_data, cleanups,
                   calls, t0, lastDetect, pauseLog, expired,
                   frameLog, script, probe>>

\* pygame.QUIT, or KEYDOWN of K_ESCAPE: running = False
QuitEvent(maxEvents) ==
    /\ pc = "events" /\ handled < maxEvents
    /\ running' = FALSE
    /\ handled' = handled + 1
    /\ lastEvent' = [NoEvent EXCEPT !.kind = "quit"]
    /\ tick' = [tick EXCEPT !.quit = TRUE]
    /\ UNCHANGED <<mode, paused, hue, beat_history, beat_detected, beat_cooldown,
                   freq_smooth, particles, audio_data, fft_data, pc, cleanups,
                   calls, t0, lastDetect, pauseLog, expired,
                   frameLog, script, probe>>

\* KEYDOWN of K_SPACE: self.paused = not self.paused
SpaceEvent(maxEvents) ==
    /\ pc = "events" /\ handled < maxEvents
    /\ paused' = ~paused
    /\ handled' = handled + 1
    /\ lastEvent' = [NoEvent EXCEPT !.kind = "space"]
    /\ pauseLog' = IF paused THEN pauseLog
                   ELSE [NoPause EXCEPT !.at = particles]
    /\ UNCHANGED <<mode, hue, beat_history, beat_detected, beat_cooldown,
                   freq_smooth, particles, running, audio_data, fft_data, pc,
                   cleanups, calls, tick, t0, lastDetect, expired,
                   frameLog, script, probe>>

\* ClearParticles forgotten
KeepParticles(ps) == ps

\* self.particles.clear(), line 291
ClearParticles(ps) == <<>>

\* KEYDOWN of K_1..K_5: self.mode = event.key - K_0; self.particles.clear()
KeyEvent(maxEvents) ==
    /\ pc = "events" /\ handled < maxEvents
    /\ \E k \in 1..5 :
          /\ mode' = k
          /\ lastEvent' = [kind |-> "select", had |-> Len(particles), same |-> (k = mode)]
    /\ particles' = ClearParticles(particles)
    /\ handled' = handled + 1
    /\ pauseLog' = IF paused THEN [pauseLog EXCEPT !.selected = TRUE] ELSE pauseLog
    /\ UNCHANGED <<paused, hue, beat_history, beat_detected, beat_cooldown,
                   freq_smooth, running, audio_data, fft_data, pc, cleanups,
                   calls, tick, t0, lastDetect, expired,
                   frameLog, script, probe>>

\* any other event (another key, the mouse): no branch of lines 282-291 takes it
OtherEvent(maxEvents) ==
    /\ pc = "events" /\ handled < maxEvents
    /\ handled' = handled + 1
    /\ lastEvent' = [NoEvent EXCEPT !.kind = "other"]
    /\ UNCHANGED <<mode, paused, hue, beat_history, beat_detected, beat_cooldown,
                   freq_smooth, particles, running, audio_data, fft_data, pc,
                   cleanups, calls, tick, t0, lastDetect, pauseLog, expired,
                   frameLog, script, probe>>

\* Branch without the test of self.paused
BranchAlways(isPaused) == "audio"

\* where line 293 sends the tick: the analysis, or the PAUSED banner
Branch(isPaused) == IF isPaused THEN "flip" ELSE "audio"

\* The event list is exhausted: if not self.paused (line 293).  The paused
\* branch (lines 320-323) only draws the banner.
EventsDone(maxTicks) ==
    /\ pc = "events"
    /\ Branch(paused) = "audio" => calls < maxTicks
    /\ pc' = Branch(paused)
    /\ UNCHANGED <<mode, paused, hue, beat_history, beat_detected, beat_cooldown,
                   freq_smooth, particles, running, audio_data, fft_data, cleanups,
                   handled, lastEvent, calls, tick, t0, lastDetect, pauseLog, expired,
                   frameLog, script, probe>>

\* ------------------------------------------------------------ the tick
\* audio_data = self.get_audio_data(): a frame read from the stream
ReadFrame(allowed) ==
    /\ pc = "audio"
    /\ \E f \in allowed : audio_data' = f /\ tick' = [tick EXCEPT !.pulls = @ + 1, !.frame = f]
    /\ pc' = "analyze"
    /\ UNCHANGED <<mode, paused, hue, beat_history, beat_detected, beat_cooldown,
                   freq_smooth, particles, running, fft_data, cleanups,
                   handled, lastEvent, calls, t0, lastDetect, pauseLog, expired,
                   frameLog, script, probe>>

\* audio_data = self.get_audio_data(): the read raises, zeros are substituted
ReadFails ==
    /\ pc = "audio"
    /\ audio_data' = ZeroFrame
    /\ tick' = [tick EXCEPT !.pulls = @ + 1, !.frame = ZeroFrame]
    /\ pc' = "analyze"
    /\ UNCHANGED <<mode, paused, hue, beat_history, beat_detected, beat_cooldown,
                   freq_smooth, particles, running, fft_data, cleanups,
                   handled, lastEvent, calls, t0, lastDetect, pauseLog, expired,
                   frameLog, script, probe>>

\* fft_data = self.analyze_audio(audio_data)
Analyze ==
    /\ pc = "analyze"
    /\ LET r == AnalyzeAudio(freq_smooth, audio_data)
       IN  /\ freq_smooth' = r.freq_smooth
           /\ fft_data' = r.smoothed
    /\ tick' = [tick EXCEPT !.analyzes = @ + 1, !.analyzeArg = audio_data]
    /\ frameLog' = DequeAppend(frameLog, audio_data, SmoothLen + 1)
    /\ pc' = "detect"
    /\ UNCHANGED <<mode, paused, hue, beat_history, beat_detected, beat_cooldown,
                   particles, running, audio_data, cleanups,
                   handled, lastEvent, calls, t0, lastDetect, pauseLog, expired,
                   script, probe>>

\* StoreBeat dropping the assignment: the flag of an earlier tick stays
StoreBeatStale(old, ret) == old

\* self.beat_detected = <the value detect_beat returned>, line 297
StoreBeat(old, ret) == ret

\* self.beat_detected = self.detect_beat(fft_data)
Detect ==
    /\ pc = "detect"
    /\ LET r == DetectBeat(beat_history, beat_cooldown, fft_data)
       IN  /\ beat_history' = r.beat_history
           /\ beat_cooldown' = r.beat_cooldown
           /\ beat_detected' = StoreBeat(beat_detected, r.ret)
           /\ lastDetect' = [called |-> TRUE, cd0 |-> beat_cooldown,
                             energy |-> BassEnergy(fft_data), ret |-> r.ret,
                             gap |-> NextGap(lastDetect)]
    /\ calls' = calls + 1
    /\ tick' = [tick EXCEPT !.detects = @ + 1, !.detectArg = fft_data]
    /\ pc' = "hue"
    /\ UNCHANGED <<mode, paused, hue, freq_smooth, particles, running, audio_data,
                   fft_data, cleanups, handled, lastEvent, t0, pauseLog, expired,
                   frameLog, script, probe>>

\* NextHue without the modulo
NextHueNoWrap(h) == h + HueStep

\* (self.hue + 0.002) % 1.0
NextHue(h) == (h + HueStep) % HueDen

\* self.hue = (self.hue + 0.002) % 1.0
UpdateHue ==
    /\ pc = "hue"
    /\ hue' = NextHue(hue)
    /\ pc' = "draw"
    /\ UNCHANGED <<mode, paused, beat_history, beat_detected, beat_cooldown,
                   freq_smooth, particles, running, audio_data, fft_data, cleanups,
                   handled, lastEvent, calls, tick, t0, lastDetect, pauseLog, expired,
                   frameLog, script, probe>>

\* The particle set after draw_mode_5_particles: spawn on the beat flag,
\* then update
Mode5Particles(ps, beat, fft, h) ==
    UpdateParticles(ps \o SpawnParticles(beat, fft, h))

\* Lines 303-312, modes 1-4: the screen is drawn from fft_data or
\* audio_data; mode 1 reads the beat flag (line 146)
DrawOther ==
    /\ pc = "draw"
    /\ mode # 5
    /\ tick' = [tick EXCEPT !.readsBeat = (mode = 1),
                            !.drawBeat = (mode = 1 /\ beat_detected),
                            !.draws = @ + 1]
    /\ pc' = "flip"
    /\ UNCHANGED <<mode, paused, hue, beat_history, beat_detected, beat_cooldown,
                   freq_smooth, particles, running, audio_data, fft_data, cleanups,
                   handled, lastEvent, calls, t0, lastDetect, pauseLog, expired,
                   frameLog, script, probe>>

\* Line 312: draw_mode_5_particles(fft_data)
DrawParticles ==
    /\ pc = "draw"
    /\ mode = 5
    /\ LET all == particles \o SpawnParticles(beat_detected, fft_data, hue)
       IN  /\ particles' = Mode5Particles(particles, beat_detected, fft_data, hue)
           /\ expired' = expired \cup Removed(all)
    /\ tick' = [tick EXCEPT !.readsBeat = TRUE, !.drawBeat = beat_detected,
                            !.draws = @ + 1]
    /\ pc' = "flip"
    /\ UNCHANGED <<mode, paused, hue, beat_history, beat_detected, beat_cooldown,
                   freq_smooth, running, audio_data, fft_data, cleanups,
                   handled, lastEvent, calls, t0, lastDetect, pauseLog,
                   frameLog, script, probe>>

\* pygame.display.flip(); self.clock.tick(60); then the loop test
\* `while running`: the next tick starts, or the loop is left
Flip ==
    /\ pc = "flip"
    /\ pc' = IF running THEN "events" ELSE "cleanup"
    /\ handled' = 0
    /\ lastEvent' = NoEvent
    /\ tick' = NoTick
    /\ t0' = analysis
    /\ pauseLog' = IF paused THEN [pauseLog EXCEPT !.ticked = TRUE] ELSE NoPause
    /\ UNCHANGED <<mode, paused, hue, beat_history, beat_detected, beat_cooldown,
                   freq_smooth, particles, running, audio_data, fft_data, cleanups,
                   calls, lastDetect, expired,
                   frameLog, script, probe>>

\* self.cleanup(), line 328: the stream is closed, pygame quit
Cleanup ==
    /\ pc = "cleanup"
    /\ cleanups' = cleanups + 1
    /\ pc' = "done"
    /\ UNCHANGED <<mode, paused, hue, beat_history, beat_detected, beat_cooldown,
                   freq_smooth, particles, running, audio_data, fft_data,
                   handled, lastEvent, calls, tick, t0, lastDetect, pauseLog, expired,
                   frameLog, script, probe>>

\* An exception leaves run(): a call of the tick raises (pygame.error from
\* the event queue, a draw or the flip, ValueError from range() in
\* draw_mode_3_waveform when WIDTH > CHUNK, KeyboardInterrupt anywhere) and
\* nothing in run() catches it, so line 328 is not reached.  Not while the
\* frame is read: the bare except of get_audio_data (line 70) catches all.
Raise ==
    /\ pc \in {"events", "analyze", "detect", "hue", "draw", "flip"}
    /\ pc' = "raised"
    /\ UNCHANGED <<mode, paused, hue, beat_history, beat_detected, beat_cooldown,
                   freq_smooth, particles, running, audio_data, fft_data, cleanups,
                   handled, lastEvent, calls, tick, t0, lastDetect, pauseLog, expired,
                   frameLog, script, probe>>

\* ------------------------------------------------------------ the detector alone
\* detect_beat called directly on a fresh detector, with spectra of a chosen
\* bass energy.

\* a spectrum whose bass energy is e units
Tone(e) == [i \in 1..HalfChunk |-> IF i = 1 THEN e * Den ELSE 0]

\* The feeds: the same energy in every call, or 100 in calls 1-20, a spike
\* to 200 in call 21 and any of SpikeTail afterwards
ConstantEnergies == {0, 1, 100, 200}
SpikeTail == {100, 400}
Spike == [kind |-> "spike", e |-> 0]
Scripts == {Spike} \cup {[kind |-> "constant", e |-> x] : x \in ConstantEnergies}

\* the energies the feed allows in call n
ScriptEnergies(sc, n) ==
    IF sc.kind = "constant" THEN {sc.e}
    ELSE IF n <= HistLen THEN {100}
    ELSE IF n = HistLen + 1 THEN {200}
    ELSE SpikeTail

\* detect_beat(fft_data), the instance's beat state updated as by lines 100-111
CallDetectBeat ==
    /\ script.kind # "mic"
    /\ calls < MaxCalls
    /\ \E e \in ScriptEnergies(script, calls + 1) :
          LET r == DetectBeat(beat_history, beat_cooldown, Tone(e))
          IN  /\ beat_history' = r.beat_history
              /\ beat_cooldown' = r.beat_cooldown
              /\ lastDetect' = [called |-> TRUE, cd0 |-> beat_cooldown,
                                energy |-> BassEnergy(Tone(e)), ret |-> r.ret,
                                gap |-> NextGap(lastDetect)]
    /\ calls' = calls + 1
    /\ UNCHANGED <<mode, paused, hue, beat_detected, freq_smooth, particles,
                   running, audio_data, fft_data, pc, cleanups, handled,
                   lastEvent, tick, t0, pauseLog, expired, frameLog, script, probe>>

InitDetector == Construct /\ script \in Scripts /\ probe = NoProbe

NextDetector == CallDetectBeat

SpecDetector == InitDetector /\ [][NextDetector]_vars

\* ------------------------------------------------------------ the bands alone
\* get_frequency_bands called on its own.

\* the values of the short series
Levels == {0, 1, 5}

\* the sequences over S of length n
RECURSIVE SeqsOfLen(_, _)
SeqsOfLen(S, n) ==
    IF n = 0 THEN {<<>>}
    ELSE {Append(s, x) : s \in SeqsOfLen(S, n - 1), x \in S}

\* The calls: every short series with every small band count, and a series
\* of 2050 elements cut into 64 bands
BandCalls ==
    {[fn |-> "bands", series |-> s, n |-> b, called |-> FALSE, out |-> <<>>] :
        s \in UNION {SeqsOfLen(Levels, k) : k \in 0..MaxSeries}, b \in 1..MaxBands}
    \cup {[fn |-> "bands", series |-> [k \in 1..2050 |-> k % 7], n |-> 64,
           called |-> FALSE, out |-> <<>>]}

\* get_frequency_bands(series, n)
CallGetFrequencyBands ==
    /\ probe.fn = "bands" /\ ~probe.called
    /\ probe' = [probe EXCEPT !.called = TRUE,
                              !.out = GetFrequencyBands(probe.series, probe.n)]
    /\ UNCHANGED <<mode, paused, hue, beat_history, beat_detected, beat_cooldown,
                   freq_smooth, particles, running, audio_data, fft_data, pc,
                   cleanups, handled, lastEvent, calls, tick, t0, lastDetect,
                   pauseLog, expired, frameLog, script>>

InitBands == Construct /\ script = Mic /\ probe \in BandCalls

NextBands == CallGetFrequencyBands

SpecBands == InitBands /\ [][NextBands]_vars

\* ------------------------------------------------------------ the waveform alone
\* draw_mode_3_waveform called on its own, on a canvas of any width up to
\* the length of the frame.

\* Lines 189-196: the x coordinates of the points, in order: one point for
\* each i of range(0, n, step), at x = i // step.  (step >= 1 for the
\* widths up to n; range() raises ValueError for the wider ones.)
WaveformXs(n, width) ==
    LET step == n \div width
        count == (n + step - 1) \div step
    IN  [k \in 1..count |-> ((k - 1) * step) \div step]

\* the canvases: every WIDTH from 1 to the length of the frame
WaveCalls ==
    {[fn |-> "wave", series |-> <<>>, n |-> w, called |-> FALSE, out |-> <<>>] :
        w \in 1..FrameSamples}

\* draw_mode_3_waveform(audio_data) with len(audio_data) = CHUNK
CallDrawWaveform ==
    /\ probe.fn = "wave" /\ ~probe.called
    /\ probe' = [probe EXCEPT !.called = TRUE,
                              !.out = WaveformXs(FrameSamples, probe.n)]
    /\ UNCHANGED <<mode, paused, hue, beat_history, beat_detected, beat_cooldown,
                   freq_smooth, particles, running, audio_data, fft_data, pc,
                   cleanups, handled, lastEvent, calls, tick, t0, lastDetect,
                   pauseLog, expired, frameLog, script>>

InitWave == Construct /\ script = Mic /\ probe \in WaveCalls

NextWave == CallDrawWaveform

SpecWave == InitWave /\ [][NextWave]_vars

\* ------------------------------------------------------------ specifications
\* The main loop, every frame kind possible in every tick
Next ==
    \/ QuitEvent(MaxEvents)
    \/ SpaceEvent(MaxEvents)
    \/ KeyEvent(MaxEvents)
    \/ OtherEvent(MaxEvents)
    \/ EventsDone(MaxTicks)
    \/ ReadFrame(Frames)
    \/ ReadFails
    \/ Analyze
    \/ Detect
    \/ UpdateHue
    \/ DrawOther
    \/ DrawParticles
    \/ Flip
    \/ Cleanup

Spec == Init /\ [][Next]_vars

\* The main loop with the exceptions that can leave it
NextAbort == Next \/ Raise

SpecAbort == Init /\ [][NextAbort]_vars

\* A long session in a silent room: long enough for the hue to wrap
NextSilent ==
    \/ SpaceEvent(LongEvents)
    \/ KeyEvent(LongEvents)
    \/ EventsDone(SilentTicks)
    \/ ReadFrame({ZeroFrame})
    \/ Analyze
    \/ Detect
    \/ UpdateHue
    \/ DrawOther
    \/ DrawParticles
    \/ Flip

SpecSilent == Init /\ [][NextSilent]_vars

\* A session in a room that falls silent after NoisyTicks ticks: long
\* enough for a particle to live out its life
NextLife ==
    \/ SpaceEvent(LongEvents)
    \/ KeyEvent(LongEvents)
    \/ EventsDone(LifeTicks)
    \/ ReadFrame(IF calls < NoisyTicks THEN Frames ELSE {ZeroFrame})
    \/ Analyze
    \/ Detect
    \/ UpdateHue
    \/ DrawOther
    \/ DrawParticles
    \/ Flip

SpecLife == Init /\ [][NextLife]_vars

\* ------------------------------------------------------------ claims

\* C1: right after a mode-select event is handled, and before anything else
\* of the tick, the particle set is empty: whatever the key, paused or not.
C1_SelectClears ==
    (pc = "events" /\ lastEvent.kind = "select") => particles = <<>>

\* a paused visualizer holding particles has just handled the key of the
\* mode it is in
C1_Witness ==
    /\ pc = "events" /\ lastEvent.kind = "select"
    /\ lastEvent.had > 0 /\ lastEvent.same /\ paused

\* bass energy > 1.3 times the mean of the history, the energy included
ExceedsMean(e, h) == 10 * e * Len(h) > 13 * SumSeq(h)

\* C2 as stated: fed 100 in calls 1-20 and 200 in call 21, a fresh detector
\* returns false in calls 1-20, true in call 21, false in calls 22-30, and
\* in call 31 it returns true exactly when the energy exceeds 1.3 times the
\* rolling mean.
C2_EligibleAt31 ==
    (script = Spike /\ lastDetect.called) =>
        /\ calls \in 1..20 => ~lastDetect.ret
        /\ calls = 21 => lastDetect.ret
        /\ calls \in 22..30 => ~lastDetect.ret
        /\ calls = 31 => (lastDetect.ret <=> ExceedsMean(lastDetect.energy, beat_history))

\* C2 amended: false in calls 1-20, true in call 21, false in calls 22-31
\* (the ten calls the cooldown of 10 suppresses), and in call 32 true exactly
\* when the energy exceeds 1.3 times the rolling mean.
C2_EligibleAt32 ==
    (script = Spike /\ lastDetect.called) =>
        /\ calls \in 1..20 => ~lastDetect.ret
        /\ calls = 21 => lastDetect.ret /\ beat_cooldown = 10
        /\ calls \in 22..31 => ~lastDetect.ret
        /\ calls = 32 => (lastDetect.ret <=> ExceedsMean(lastDetect.energy, beat_history))

\* call 32 of the spike feed has returned true
C2_Witness == script = Spike /\ calls = 32 /\ lastDetect.ret

\* C3: a detector fed the same bass energy in every call never returns true
\* and its cooldown stays 0.
C3_ConstantNeverBeats ==
    script.kind = "constant" => (~lastDetect.ret /\ beat_cooldown = 0)

\* a non-zero constant feed has filled the history and gone on
C3_Witness ==
    /\ script.kind = "constant" /\ script.e > 0
    /\ calls > HistLen /\ Len(beat_history) = HistLen

\* C4: a particle spawned with life 60 is in the set after each of its first
\* 59 updates, and an update removes it exactly when it is its 60th.
C4_LifeOfSixty ==
    /\ \A k \in 1..Len(particles) :
          /\ particles[k].updates \in 1..59
          /\ particles[k].life = 60 - particles[k].updates
    /\ expired \subseteq {60}

\* a particle has been removed by its 60th update
C4_Witness == expired = {60} /\ particles = <<>> /\ mode = 5

\* C5: at the end of a tick whose body ran paused, the smoothing history,
\* the beat history, the cooldown, the beat flag and the hue are what they
\* were when the tick began, and no frame was pulled.
C5_PausedTickFrozen ==
    (pc = "flip" /\ paused) =>
        /\ analysis = t0
        /\ tick.pulls = 0 /\ tick.analyzes = 0 /\ tick.detects = 0

\* a paused tick ends in the middle of a cooldown
C5_Witness == pc = "flip" /\ paused /\ beat_cooldown > 0 /\ beat_detected

\* the pause has just been lifted by a SPACE key
JustResumed == pc = "events" /\ lastEvent.kind = "space" /\ ~paused

\* C6 as stated: whatever events arrive while paused, the particle set at
\* resume is the particle set at the moment of pausing.
C6_PreservedWhateverEvents == JustResumed => particles = pauseLog.at

\* C6 amended: the particle set at resume is the particle set at the moment
\* of pausing, provided no mode-select event was handled while paused.
C6_PreservedUnlessSelect ==
    (JustResumed /\ ~pauseLog.selected) => particles = pauseLog.at

\* particles have come through a paused tick
C6_Witness ==
    JustResumed /\ ~pauseLog.selected /\ pauseLog.ticked /\ particles # <<>>

\* C7: at the end of a non-paused tick exactly one frame was pulled,
\* analyze_audio ran once, on that frame, detect_beat ran once, on the
\* spectrum that call returned, and the beat flag the drawn mode read is the
\* value that detect_beat call returned.
C7_OneFrameOnePass ==
    (pc = "flip" /\ ~paused) =>
        /\ tick.pulls = 1 /\ tick.analyzes = 1 /\ tick.detects = 1
        /\ tick.analyzeArg = tick.frame
        /\ tick.detectArg = fft_data
        /\ beat_detected = lastDetect.ret
        /\ tick.readsBeat => tick.drawBeat = lastDetect.ret

\* a tick that drew mode 5 on a beat is ending, a tick without a beat before it
C7_Witness ==
    /\ pc = "flip" /\ ~paused /\ mode = 5
    /\ tick.readsBeat /\ tick.drawBeat /\ calls >= 2

\* C8: the hue is in [0,1), starts at 0 and is HueStep/HueDen times the
\* number of non-paused ticks whose hue update has run, modulo 1: one
\* increment per non-paused tick and no other change.
C8_HueCycles ==
    /\ hue \in 0..(HueDen - 1)
    /\ hue = (HueStep * (IF pc = "hue" THEN calls - 1 ELSE calls)) % HueDen

\* the hue has wrapped
C8_Witness == pc = "draw" /\ calls * HueStep > HueDen /\ hue < HueStep * 2

\* C9: the cooldown is an integer in 0..10; a call made while it is positive
\* lowers it by exactly 1 and returns false; it is 10 only right after a
\* call that returned true, and otherwise a call leaves it 0.
C9_CooldownRange ==
    /\ beat_cooldown \in 0..10
    /\ ~lastDetect.called => beat_cooldown = 0
    /\ lastDetect.called =>
          /\ lastDetect.cd0 > 0 =>
                (beat_cooldown = lastDetect.cd0 - 1 /\ ~lastDetect.ret)
          /\ lastDetect.cd0 = 0 =>
                beat_cooldown = (IF lastDetect.ret THEN 10 ELSE 0)
    /\ beat_cooldown = 10 => (lastDetect.called /\ lastDetect.ret)

\* the cooldown has been counted down to 0 and a further call has left it there
C9_Witness ==
    /\ lastDetect.called /\ lastDetect.cd0 = 0 /\ beat_cooldown = 0
    /\ calls > 12 /\ \E k \in 1..Len(beat_history) : beat_history[k] > 0

\* C10: the spectrum the n-th analyze_audio call returns is the element-wise
\* mean of the last min(n, 3) compressed spectra.
C10_MeanOfLastThree ==
    pc = "detect" =>
        LET n == calls + 1
            k == IF n < 3 THEN n ELSE 3
            m == Len(frameLog)
        IN  /\ Len(fft_data) = HalfChunk
            /\ m >= k
            /\ \A i \in 1..HalfChunk :
                  k * fft_data[i] =
                      Den * SumSeq([j \in 1..k |-> Compress(frameLog[m - k + j])[i]])

\* the fourth call has returned, the frame it dropped not a silent one
C10_Witness ==
    /\ pc = "detect" /\ calls + 1 = 4 /\ Len(frameLog) = 4
    /\ frameLog[1] # ZeroFrame /\ frameLog[4] = ZeroFrame

\* the positions of a series of n elements that band i of b bands is
\* the mean of: i*w .. (i+1)*w - 1 (0-based), w = floor(n / b)
BandPositions(n, b, i) ==
    LET w == n \div b IN {(i - 1) * w + k : k \in 1..w}

\* value i of the result is the arithmetic mean of the elements of its
\* w >= 1 positions, and of nothing else
MeanOfBand(i) ==
    LET n == Len(probe.series)
        w == n \div probe.n
    IN  /\ w >= 1
        /\ probe.out[i].den = w
        /\ probe.out[i].num = SumSeq([k \in 1..w |-> probe.series[(i - 1) * w + k]])

\* the slices are pairwise disjoint and within the series, and the trailing
\* n - b*w elements are in none of them
SlicesApart ==
    LET n == Len(probe.series)
        b == probe.n
        w == n \div b
        at(i) == {k \in 1..(n + 1) : BandSlice(n, b, i).first <= k
                                       /\ k <= BandSlice(n, b, i).last}
    IN  /\ \A i \in 1..b : at(i) \subseteq 1..n /\ at(i) = BandPositions(n, b, i)
        /\ \A i, j \in 1..b : i # j => at(i) \cap at(j) = {}
        /\ \A k \in (b * w + 1)..n : \A i \in 1..b : k \notin at(i)

\* C11 as stated: for every series and every band count b >= 1 the result
\* has exactly b values, value i the arithmetic mean of the elements at
\* positions i*w .. (i+1)*w - 1, w = floor(len / b); the slices are disjoint
\* and within bounds and the trailing elements are in no band.
C11_MeansForEveryCount ==
    (probe.fn = "bands" /\ probe.called) =>
        /\ Len(probe.out) = probe.n
        /\ \A i \in 1..probe.n : MeanOfBand(i)
        /\ SlicesApart

\* C11: for every series and every band count b with 1 <= b <= len(series)
\* the result has exactly b values, value i the arithmetic mean of the
\* elements at positions i*w .. (i+1)*w - 1, w = floor(len / b) >= 1; the
\* slices are disjoint and within bounds and the trailing len - b*w elements
\* are in no band.  With b > len(series) the result still has b values, but
\* each is the mean of an empty slice (nan), not a mean of elements.
C11_MeansWhenCountFits ==
    (probe.fn = "bands" /\ probe.called) =>
        /\ Len(probe.out) = probe.n
        /\ SlicesApart
        /\ probe.n <= Len(probe.series) => \A i \in 1..probe.n : MeanOfBand(i)
        /\ probe.n > Len(probe.series) => \A i \in 1..probe.n : probe.out[i].den = 0

\* 2050 elements have been cut into 64 bands of 32, the last 2 left over
C11_Witness ==
    /\ probe.fn = "bands" /\ probe.called
    /\ Len(probe.series) = 2050 /\ probe.n = 64
    /\ Len(probe.out) = 64 /\ probe.out[64].den = 32
    /\ probe.series[2049] # 0

\* run() has returned or raised
Exited == pc \in {"done", "raised"}

\* C12: the audio stream and the display are released on every path by
\* which run() exits, after a quit event as well as when an operation of a
\* tick raises an error.
C12_ReleasedOnEveryExit == Exited => cleanups >= 1

\* the frames pulled, analysed, run through the detector and drawn in the
\* tick so far are all k
TickDid(k) ==
    tick.pulls = k /\ tick.analyzes = k /\ tick.detects = k /\ tick.draws = k

\* C13: a quit event received in tick T lets tick T run to completion (the
\* events left are handled, then the frame is analysed, run through the
\* detector and drawn if not paused, then presented), no tick T+1 starts,
\* and cleanup runs exactly once afterwards.
C13_QuitEndsAfterTick ==
    /\ [](/\ (~running /\ pc \notin {"cleanup", "done"}) => tick.quit
          /\ (tick.quit /\ pc = "flip") => TickDid(IF paused THEN 0 ELSE 1)
          /\ pc = "cleanup" => (~running /\ cleanups = 0)
          /\ pc = "done" => (~running /\ cleanups = 1))
    /\ [][/\ (tick.quit /\ pc = "events" /\ pc' # "events") =>
                 pc' = (IF paused THEN "flip" ELSE "audio")
          /\ (pc' = "cleanup" /\ pc # "cleanup") => (pc = "flip" /\ tick.quit)
          /\ (pc' = "events" /\ pc # "events") => running
          /\ cleanups' # cleanups => (pc = "cleanup" /\ cleanups' = 1)]_vars

\* a tick that is not paused has been drawn after a quit event and a
\* further event handled behind it
C13_Witness ==
    /\ pc = "flip" /\ tick.quit /\ ~running /\ ~paused
    /\ lastEvent.kind \notin {"quit", "none"}
    /\ TickDid(1)

\* C15: after a detect_beat call that returns true each of the next 10 calls
\* returns false whatever spectrum it is given: a call fewer than 10 calls
\* behind one that returned true returns false, so two calls that return
\* true have at least 10 calls that return false between them.
C15_TenCallsSuppressed ==
    (lastDetect.called /\ lastDetect.gap < CooldownTicks) => ~lastDetect.ret

\* the tenth call behind a beat has returned false on an energy above 1.3
\* times the rolling mean
C15_Witness ==
    /\ lastDetect.called /\ lastDetect.gap = CooldownTicks - 1
    /\ ExceedsMean(lastDetect.energy, beat_history)
    /\ ~lastDetect.ret

\* the particles of ps that have been updated once: those the draw that
\* made ps created
CreatedIn(ps) ==
    LET Fresh(p) == p.updates = 1 IN SelectSeq(ps, Fresh)

\* the bands (0-based) of the 32 whose magnitude, the mean of their slice of
\* the spectrum, is greater than 5
LoudBands(fft) ==
    LET w == Len(fft) \div ParticleBands
    IN  {i \in 0..(ParticleBands - 1) :
            SumSeq([k \in 1..w |-> fft[i * w + k]]) > SpawnLevel * Den * w}

\* C16: particles are created only in a tick that is not paused, whose mode
\* is 5 and whose beat flag, computed in that tick, is true; such a tick
\* creates exactly one particle, of life 60 before its first update, for
\* each of the 32 bands of magnitude > 5 and none for the others: at most
\* 32 in a tick, and none in any other step.
C16_SpawnOnBeatOnly ==
    [][/\ ~(pc = "draw" /\ mode = 5) => particles' \in {particles, <<>>}
       /\ (pc = "draw" /\ mode = 5) =>
             LET new == CreatedIn(particles')
             IN  /\ ~paused /\ tick.detects = 1
                 /\ Len(particles') <= Len(particles) + Len(new)
                 /\ ~beat_detected => new = <<>>
                 /\ beat_detected =>
                       /\ {new[k].i : k \in 1..Len(new)} = LoudBands(fft_data)
                       /\ Len(new) = Cardinality(LoudBands(fft_data))
                 /\ \A k \in 1..Len(new) : new[k].life = ParticleLife - 1
                 /\ Len(new) <= ParticleBands]_vars

\* a beat in mode 5 has created particles for some of the bands and none
\* for the others
C16_Witness ==
    /\ pc = "flip" /\ mode = 5 /\ tick.drawBeat
    /\ Len(CreatedIn(particles)) \in 1..(ParticleBands - 1)

\* the particles of ps that one more update leaves in the set, as that
\* update leaves them: one off the life of each, nothing else changed
OneOffEach(ps) ==
    LET Lives(p) == p.life > 1
        kept == SelectSeq(ps, Lives)
    IN  [k \in 1..Len(kept) |->
            [kept[k] EXCEPT !.life = @ - 1, !.updates = @ + 1]]

\* the particles of ps that were in the set before the update that made ps
Older(ps) ==
    LET Seen(p) == p.updates > 1 IN SelectSeq(ps, Seen)

\* C17: the life of a particle never increases: an update of mode 5 takes
\* exactly 1 off it, every other step leaves it as it is (or empties the
\* set); and whenever a tick has ended every particle in the set has a life
\* in 1..59: none of life <= 0 survives an update, and a particle created
\* in a tick has been updated once in that tick.
C17_LifeCountsDown ==
    /\ [](\A k \in 1..Len(particles) :
             particles[k].life \in 1..(ParticleLife - 1))
    /\ [][IF pc = "draw" /\ mode = 5
          THEN Older(particles') = OneOffEach(particles)
          ELSE particles' \in {particles, <<>>}]_vars

\* an update of mode 5 has left a particle with a life of 1 in the set
C17_Witness ==
    /\ pc = "flip" /\ mode = 5 /\ tick.draws = 1
    /\ \E k \in 1..Len(particles) : particles[k].life = 1

\* C18: for a frame of 2048 samples and every canvas width in 1..2048 the
\* polyline of mode 3 has at most `width` points and the x coordinate of
\* every point lies in 0..width-1.
C18_PolylineFitsWidth ==
    (probe.fn = "wave" /\ probe.called) =>
        /\ Len(probe.out) <= probe.n
        /\ \A k \in 1..Len(probe.out) : probe.out[k] \in 0..(probe.n - 1)

\* C19: whenever a tick has ended, and after every event handled, a particle
\* set that is not empty implies mode 5: no particle exists while the mode
\* is 1, 2, 3 or 4.
C19_ParticlesOnlyInMode5 == particles # <<>> => mode = 5

\* the visualizer holds particles after a pause toggle handled in mode 5
C19_Witness ==
    /\ pc = "events" /\ lastEvent.kind = "space"
    /\ particles # <<>> /\ mode = 5

====
